---- MODULE Spec2Model ----
(***************************************************************************)
(* Authenticated-request subsystem of BlueSky_MCP.                         *)
(*                                                                         *)
(* Spec      : src/src/bluesky_mcp/server.py, one host issuing tool        *)
(*             invocations through handle_call_tool wrapped by             *)
(*             handle_api_errors; every await is one step.                 *)
(* SpecLimit : validate_limit as a pure function over Python values.       *)
(***************************************************************************)
EXTENDS Integers, Sequences, FiniteSets, TLC

VARIABLES
    api_key,      \* API_KEY: "" when the variable is unset or empty
    identifier,   \* IDENTIFIER: "" when the variable is unset or empty
    pc,           \* where the wrapped handle_call_tool stands
    name,         \* tool name of the current invocation
    query,        \* arguments.get("query"): <<>> is None, <<s>> the string s
    limit,        \* arguments.get("limit"): a Python value (see PyValues)
    exec,         \* 0: none, 1: first run of func, 2: run inside the TokenExpiredError handler
    attempt,      \* loop variable of ensure_client
    client,       \* BlueSkyClient.client: "None" or "Client"
    last_auth,    \* BlueSkyClient.last_auth: <<>> is None, <<t>> the time t
    now,          \* datetime.now(), in hours
    result,       \* what the wrapper handed to the host
    calls,        \* invocations started so far
    ensured,      \* per run of func: ensure_client calls
    nLogin,       \* per run of func: client.login calls
    nLoginOK,     \* per run of func: client.login calls that returned a profile
    lastLogin,    \* per run of func: outcome of the latest client.login call
    slept,        \* per run of func: the delays slept, in order
    sent,         \* per run of func: the limit parameter of each data call sent
    dataOut,      \* per run of func: outcome of the data call
    prev,         \* the previous invocation, when it logged in once and succeeded
    lim_pc,       \* validate_limit: "in" before the call, "out" after it
    lim_in,       \* validate_limit: the limit argument
    lim_default,  \* validate_limit: the default argument
    lim_out,      \* validate_limit: what the call produced
    s_jwt,        \* BlueSkySession.jwt: <<>> is None, <<n>> the n-th token issued
    s_did,        \* BlueSkySession.did: <<>> is None
    s_refresh,    \* BlueSkySession.refresh_jwt: <<>> is None
    s_auth,       \* BlueSkySession.headers["Authorization"]: <<>> is no such key, <<n>> "Bearer n"
    s_tok,        \* tokens the server has issued
    av_pc,        \* make_bluesky_request: "ready", "login", "data", "returned"
    av_ret,       \* what make_bluesky_request returned
    av_good,      \* token of the latest login that ensure_auth completed without raising
    av_nLogin,    \* createSession requests sent in the current call
    av_nData,     \* data requests sent in the current call
    av_sentAuth,  \* Authorization header carried by the data request of the current call
    av_resp,      \* response to the data request of the current call
    av_prev,      \* return value and data response of the previous call
    av_calls,     \* calls started so far
    av_req,       \* alpha_vantage_mcp handle_call_tool: name and arguments
    av_param,     \* its limit parameter handed to make_bluesky_request
    av_result,    \* what it returned to the host
    c_pc,         \* concurrent callers of ensure_auth: where each stands
    c_calls,      \* ensure_auth calls started by the concurrent callers
    api_env,      \* BlueSkyAPI: the two environment variables
    api_session,  \* BlueSkyAPI.session: "None" or "Session"
    api_authed,   \* whether session.headers holds Authorization
    api_pc,       \* BlueSkyAPI call: "ready", "login", "data"
    api_out,      \* how the latest get_profile / get_follows ended
    api_nLoginOK, \* createSession requests that succeeded on the instance
    api_tried,    \* whether _ensure_session of the current call found no session
    api_sentAuth, \* whether the data request of the current call carried Authorization
    api_prevFail, \* whether _ensure_session raised in the previous call
    api_calls,    \* calls started so far
    api_method,   \* the method of the current call
    f_pc,         \* ensure_client called again and again: "ready", "login", "sleep"
    f_attempt,    \* the attempt of its retry loop
    f_calls,      \* ensure_client calls started so far
    f_nLogin,     \* logins attempted by the current call
    f_need,       \* whether, at the start of the current call, no login had
                  \* succeeded or the last success was more than AUTH_EXPIRY old
    f_okAt        \* the time of the last successful login, <<>> when none

mcpVars == <<api_key, identifier, pc, name, query, limit, exec, attempt, client,
             last_auth, now, result, calls, ensured, nLogin, nLoginOK, lastLogin,
             slept, sent, dataOut, prev>>
limVars == <<lim_pc, lim_in, lim_default, lim_out>>
sessVars == <<s_jwt, s_did, s_refresh, s_auth, s_tok>>
avVars == <<av_pc, av_ret, av_good, av_nLogin, av_nData, av_sentAuth, av_resp,
            av_prev, av_calls>>
hdlVars == <<av_req, av_param, av_result>>
concVars == <<c_pc, c_calls>>
apiVars == <<api_env, api_session, api_authed, api_pc, api_out, api_nLoginOK,
             api_tried, api_sentAuth, api_prevFail, api_calls, api_method>>
freshVars == <<f_pc, f_attempt, f_calls, f_nLogin, f_need, f_okAt>>
extVars == <<sessVars, avVars, hdlVars, concVars, apiVars, freshVars>>
vars == <<mcpVars, limVars, extVars>>

----------------------------------------------------------------------------
(* Program constants *)

MAX_RETRIES == 3
RETRY_DELAY == 1
\* timedelta(hours=1)
AUTH_EXPIRY == 1
\* validate_limit's max_limit default
MAX_LIMIT == 100
\* validate_limit's default default
DEFAULT_LIMIT == 50
\* default=25 of the two search tools
SEARCH_DEFAULT_LIMIT == 25

(* Bounds of the model *)

\* tool invocations the host issues
MaxCalls == 2
\* hours the clock runs
MaxTime == 2
\* integers tried as limit: -LimitBelow .. MAX_LIMIT + LimitAbove
LimitBelow == 2
LimitAbove == 3
\* make_bluesky_request calls on one session
MaxSessCalls == 3
\* calls of ensure_auth and ensure_client by the concurrent callers
MaxConcCalls == 4
\* calls of get_profile and get_follows on the one BlueSkyAPI
MaxApiCalls == 4
\* calls of ensure_client on the one BlueSkyClient
MaxFreshCalls == 4

----------------------------------------------------------------------------
(* Python values that can arrive as arguments["limit"] *)

PyNone == [tag |-> "none", val |-> 0]
PyInf == [tag |-> "inf", val |-> 0]
PyIntVal(n) == [tag |-> "int", val |-> n]

LimitInts == (0 - LimitBelow) .. (MAX_LIMIT + LimitAbove)

\* int n; a finite float truncating to n; float inf / nan; a string spelling
\* the integer n; any other string; a list
PyValues ==
    {PyNone, PyInf, [tag |-> "nan", val |-> 0], [tag |-> "text", val |-> 0],
     [tag |-> "list", val |-> 0]}
    \cup {[tag |-> t, val |-> n] : t \in {"int", "float", "str"}, n \in LimitInts}

Ret(v) == [exc |-> "none", val |-> v]
Raise(e) == [exc |-> e, val |-> 0]

\* Python's int(): truncation of a finite float, the parse of a numeric string,
\* ValueError for nan and for any other string, OverflowError for an infinite
\* float, TypeError for None and for a list
PyInt(v) ==
    CASE v.tag \in {"int", "float", "str"} -> Ret(v.val)
      [] v.tag \in {"nan", "text"} -> Raise("ValueError")
      [] v.tag = "inf" -> Raise("OverflowError")
      [] OTHER -> Raise("TypeError")

Min(a, b) == IF a < b THEN a ELSE b

validate_limit(l, default, max_limit) ==
    IF l = PyNone THEN Ret(default)
    ELSE LET r == PyInt(l) IN
         IF r.exc \in {"ValueError", "TypeError"} THEN Ret(default)
         ELSE IF r.exc # "none" THEN r
         ELSE IF r.val < 1 THEN Ret(default)
         ELSE Ret(Min(r.val, max_limit))

----------------------------------------------------------------------------
(* SpecLimit: validate_limit applied to every value of PyValues *)

LimNone == Ret(0)

InitLimitIdle ==
    /\ lim_pc = "in"
    /\ lim_in = PyNone
    /\ lim_default = DEFAULT_LIMIT
    /\ lim_out = LimNone

CallValidateLimit ==
    /\ lim_pc = "in"
    /\ lim_pc' = "out"
    /\ lim_out' = validate_limit(lim_in, lim_default, MAX_LIMIT)
    /\ UNCHANGED <<lim_in, lim_default, mcpVars, extVars>>

InitLimit ==
    /\ lim_pc = "in"
    /\ lim_in \in PyValues
    /\ lim_default \in {SEARCH_DEFAULT_LIMIT, DEFAULT_LIMIT}
    /\ lim_out = LimNone

----------------------------------------------------------------------------
(* The tool catalog and the requests the host sends *)

SearchTools == {"bluesky_search_posts", "bluesky_search_profiles"}
LimitTools == {"bluesky_get_posts", "bluesky_get_follows", "bluesky_get_followers",
               "bluesky_get_liked_posts", "bluesky_get_personal_feed"}
ToolNames == {"bluesky_get_profile"} \cup LimitTools \cup SearchTools
UnknownNames == {"bluesky_does_not_exist"}

\* limit arguments tried in a request: absent, above the maximum, infinite
LimitArgs == {PyNone, PyIntVal(MAX_LIMIT + LimitAbove), PyInf}
\* query arguments tried in a request: absent, empty, a search term
Queries == {<<>>, <<"">>, <<"cats">>}

\* An argument bag is given by the two arguments the handler reads; only the
\* tools that read an argument get more than one value of it.
Requests ==
    {[name |-> n, query |-> <<>>, limit |-> PyNone] :
        n \in {"bluesky_get_profile"} \cup UnknownNames}
    \cup {[name |-> n, query |-> <<>>, limit |-> l] : n \in LimitTools, l \in LimitArgs}
    \cup {[name |-> n, query |-> q, limit |-> l] :
            n \in SearchTools, q \in Queries, l \in LimitArgs}

\* a slip: only the absent query is taken as missing, the empty one is not
FalsyOnlyAbsent(q) == q = <<>>

\* Python's "not query"
Falsy(q) == q = <<>> \/ q = <<"">>

DefaultLimitOf(n) == IF n \in SearchTools THEN SEARCH_DEFAULT_LIMIT ELSE DEFAULT_LIMIT

----------------------------------------------------------------------------
(* Outcomes of the two remote calls *)

\* client.login: a profile, a falsy profile, or an exception
LoginOutcomes == {"ok", "none", "AuthenticationError", "ServerError", "NetworkError"}
\* the failures of login that are transient: server error, connection failure, timeout
TransientLogin == {"ServerError", "NetworkError"}
\* the data call: a response, or an exception
DataOutcomes == {"ok", "TokenExpiredError", "RateLimitError", "AuthenticationError",
                 "ServerError", "NetworkError", "RuntimeError"}

\* the exception classes: the library's derive from AtProtocolError, this
\* module's from BlueSkyError, everything from Exception
Parent(c) ==
    CASE c \in {"TokenExpiredError", "RateLimitError", "AuthenticationError",
                "ServerError", "NetworkError"} -> "AtProtocolError"
      [] c \in {"ConfigurationError", "ConnectionError", "ValidationError"} -> "BlueSkyError"
      [] OTHER -> "Exception"

IsInstance(e, c) == e = c \/ Parent(e) = c \/ Parent(Parent(e)) = c

----------------------------------------------------------------------------
(* What the host receives *)

NoResult == [type |-> "none", val |-> ""]
Returned(t) == [type |-> "return", val |-> t]
Raises(e) == [type |-> "raise", val |-> e]

PayloadText == "<json.dumps(response.model_dump())>"
ConfigText == "Missing required environment variables: BLUESKY_APP_PASSWORD and BLUESKY_IDENTIFIER must be set"
RateLimitText == "Rate limit exceeded. Please try again later."
AuthFailedText == "Authentication failed. Please check your credentials."
ServerErrorText == "BlueSky server error. Please try again later."
UnexpectedText == "An unexpected error occurred. Please try again later."
MissingQueryText == "Missing required argument: query"
ApiErrorText(e) == "BlueSky API error: " \o e
UnknownToolText(n) == "Unknown tool: " \o n

\* the except clauses of the wrapper after TokenExpiredError, in order
ErrorText(e) ==
    IF IsInstance(e, "RateLimitError") THEN RateLimitText
    ELSE IF IsInstance(e, "AuthenticationError") THEN AuthFailedText
    ELSE IF IsInstance(e, "ServerError") THEN ServerErrorText
    ELSE IF IsInstance(e, "AtProtocolError") THEN ApiErrorText(e)
    ELSE UnexpectedText

----------------------------------------------------------------------------
(* BlueSkyClient *)

\* a slip in the check: only the app password is looked at
validate_environment_key_only(k, i) == k # ""

validate_environment(k, i) == k # "" /\ i # ""

\* a slip in the comparison: a login exactly AUTH_EXPIRY old counts as stale
ShouldRefreshAuthAtExpiry(la, t) == la = <<>> \/ t - la[1] >= AUTH_EXPIRY

ShouldRefreshAuth(la, t) == la = <<>> \/ t - la[1] > AUTH_EXPIRY

\* a slip in the condition: "and" with the negation dropped, so that a new
\* BlueSkyClient never logs in
NeedsLoginOnlyWithClient(c, la, t) == c # "None" /\ ShouldRefreshAuth(la, t)

\* the condition under which ensure_client logs in
NeedsLogin(c, la, t) == c = "None" \/ ShouldRefreshAuth(la, t)

\* the login failures the retry loop catches: AuthenticationError, also the one
\* raised for a falsy profile. The ConnectionError of the same clause is this
\* module's class, which client.login never raises.
LoginCaught(o) == o \in {"none", "AuthenticationError", "ConnectionError"}

\* a slip: one attempt more before the clause re-raises
LastAttemptOneLate(a) == a = MAX_RETRIES

\* `attempt == MAX_RETRIES - 1`
LastAttempt(a) == a = MAX_RETRIES - 1

\* a slip: the same delay after every failed attempt
DelayConstant(a) == RETRY_DELAY

\* the delay slept after the failed attempt of index a
Delay(a) == RETRY_DELAY * (a + 1)

----------------------------------------------------------------------------
(* alpha_vantage_mcp: BlueSkySession and make_bluesky_request *)

\* str(e) of the exceptions of the HTTP client: a timeout carries no message,
\* a failed connection names the failure, a broken read may do either
ExcMessages(t) ==
    CASE t = "ReadTimeout" -> {""}
      [] t = "ConnectError" -> {"All connection attempts failed"}
      [] OTHER -> {"", "[Errno 104] Connection reset by peer"}

NoResp == [st |-> 0, exc |-> "none", msg |-> "", body |-> "-"]
HttpResp(code, b) == [st |-> code, exc |-> "none", msg |-> "", body |-> b]
ExcResp(t, m) == [st |-> 0, exc |-> t, msg |-> m, body |-> "-"]

\* responses to the data request: 2xx with a JSON body or with a body that
\* response.json() cannot parse, 429, 401, other statuses, and the exceptions
\* of the HTTP client (a timeout, a failed connection, a broken read)
DataResponses ==
    {HttpResp(200, "json"), HttpResp(200, "garbage")}
    \cup {HttpResp(c, "-") : c \in {429, 401, 404, 500}}
    \cup UNION {{ExcResp(t, m) : m \in ExcMessages(t)} :
                    t \in {"ReadTimeout", "ConnectError", "ReadError"}}

\* what a createSession body holds: accessJwt, refreshJwt, did (each may be missing)
LoginBodies == [jwt : BOOLEAN, refresh : BOOLEAN, did : BOOLEAN]
NoBody == [jwt |-> FALSE, refresh |-> FALSE, did |-> FALSE]

\* responses to the createSession request
LoginResponses ==
    {[r |-> HttpResp(200, "json"), b |-> b] : b \in LoginBodies}
    \cup {[r |-> x, b |-> NoBody] :
            x \in {HttpResp(200, "garbage"), HttpResp(400, "-"), HttpResp(401, "-"),
                   HttpResp(500, "-")}
                  \cup UNION {{ExcResp(t, m) : m \in ExcMessages(t)} :
                                  t \in {"ReadTimeout", "ConnectError"}}}

\* str(e) of the HTTPStatusError of raise_for_status, which names the status
StatusMsg(code) ==
    CASE code = 401 -> "Client error '401 Unauthorized'"
      [] code = 404 -> "Client error '404 Not Found'"
      [] code = 429 -> "Client error '429 Too Many Requests'"
      [] code = 500 -> "Server error '500 Internal Server Error'"
      [] OTHER -> "Client error '400 Bad Request'"
JsonErrorMsg == "Expecting value: line 1 column 1 (char 0)"
InvalidAuthMsg == "Invalid authentication response"
AuthFailedMsg == "Authentication failed: Invalid identifier or password"

AvRateLimitText == "Rate limit exceeded. Please try again later."
AvRejectedText == "Authentication failed. Please try again."
AvErrorText(m) == "Error: " \o m

\* return values of make_bluesky_request: a str, or the parsed body
NoRet == [type |-> "none", val |-> ""]
StrRet(t) == [type |-> "str", val |-> t]
DictRet == [type |-> "dict", val |-> "<response.json()>"]

\* the statement of ensure_auth that raises for the response lr, "" when none
\* does: the post itself, the 400 branch, raise_for_status, response.json()
LoginRaises(lr) ==
    IF lr.r.exc # "none" THEN lr.r.msg
    ELSE IF lr.r.st = 400 THEN AuthFailedMsg
    ELSE IF lr.r.st # 200 THEN StatusMsg(lr.r.st)
    ELSE IF lr.r.body # "json" THEN JsonErrorMsg
    ELSE "-"

\* ensure_auth after the response lr to createSession, on the session fields
\* se, tok tokens having been issued before: the fields it leaves and the
\* message of the exception it raises ("-" when it returns)
EnsureAuthAfter(lr, se, tok) ==
    IF LoginRaises(lr) # "-"
    THEN [jwt |-> se.jwt, refresh |-> se.refresh, did |-> se.did, auth |-> se.auth,
          exc |-> LoginRaises(lr)]
    ELSE LET j == IF lr.b.jwt THEN <<tok + 1>> ELSE <<>>
             f == IF lr.b.refresh THEN <<tok + 1>> ELSE <<>>
             d == IF lr.b.did THEN <<"did:plc:user">> ELSE <<>>
         IN  IF j = <<>> \/ d = <<>>
             THEN [jwt |-> j, refresh |-> f, did |-> d, auth |-> se.auth,
                   exc |-> InvalidAuthMsg]
             ELSE [jwt |-> j, refresh |-> f, did |-> d, auth |-> j, exc |-> "-"]

TokensAfter(lr, tok) == IF LoginRaises(lr) = "-" /\ lr.b.jwt THEN tok + 1 ELSE tok

\* a slip: the 401 branch leaves the jwt in place
JwtKeptAfterData(r, j) == j

\* a slip: the token is dropped on every status that is not 200
JwtClearedOnAnyFailure(r, j) == IF r.exc = "none" /\ r.st # 200 THEN <<>> ELSE j

\* session.jwt after the data response r: cleared by 401
JwtAfterData(r, j) == IF r.st = 401 THEN <<>> ELSE j

\* what make_bluesky_request returns for the data response r
ClassifyData(r) ==
    IF r.exc # "none" THEN StrRet(AvErrorText(r.msg))
    ELSE IF r.st = 429 THEN StrRet(AvRateLimitText)
    ELSE IF r.st = 401 THEN StrRet(AvRejectedText)
    ELSE IF r.st # 200 THEN StrRet(AvErrorText(StatusMsg(r.st)))
    ELSE IF r.body # "json" THEN StrRet(AvErrorText(JsonErrorMsg))
    ELSE DictRet

Session == [jwt |-> s_jwt, refresh |-> s_refresh, did |-> s_did, auth |-> s_auth]

NoAvPrev == [ret |-> NoRet, resp |-> NoResp]

SessIdle ==
    /\ s_jwt = <<>>
    /\ s_did = <<>>
    /\ s_refresh = <<>>
    /\ s_auth = <<>>
    /\ s_tok = 0

AvIdle ==
    /\ av_pc = "ready"
    /\ av_ret = NoRet
    /\ av_good = <<>>
    /\ av_nLogin = 0
    /\ av_nData = 0
    /\ av_sentAuth = <<>>
    /\ av_resp = NoResp
    /\ av_prev = NoAvPrev
    /\ av_calls = 0

\* alpha_vantage_mcp handle_call_tool: the request and the result
NoReq == [name |-> "", query |-> <<>>, limit |-> <<>>]
NoAvResult == [type |-> "none", blocks |-> <<>>]

HdlIdle ==
    /\ av_req = NoReq
    /\ av_param = <<>>
    /\ av_result = NoAvResult

\* the coroutines that share one BlueSkySession and one BlueSkyClient
Callers == 1 .. 2

\* where a coroutine is, and the attempt of its retry loop in ensure_client
At(p, a) == [at |-> p, attempt |-> a]

ConcIdle ==
    /\ c_pc = [i \in Callers |-> At("idle", 0)]
    /\ c_calls = 0

\* BlueSkyAPI.__init__: no session
ApiNew ==
    /\ api_session = "None"
    /\ api_authed = FALSE
    /\ api_pc = "ready"
    /\ api_out = "none"
    /\ api_nLoginOK = 0
    /\ api_tried = FALSE
    /\ api_sentAuth = FALSE
    /\ api_prevFail = FALSE
    /\ api_calls = 0
    /\ api_method = ""

ApiIdle ==
    /\ api_env = [identifier |-> "user.bsky.social", password |-> "app-password"]
    /\ ApiNew

\* ensure_client not yet called on the BlueSkyClient
FreshIdle ==
    /\ f_pc = "ready"
    /\ f_attempt = 0
    /\ f_calls = 0
    /\ f_nLogin = 0
    /\ f_need = TRUE
    /\ f_okAt = <<>>

ExtIdle == SessIdle /\ AvIdle /\ HdlIdle /\ ConcIdle /\ ApiIdle /\ FreshIdle

----------------------------------------------------------------------------
(* Spec: the wrapped handle_call_tool *)

Runs == 1 .. 2

NoPrev == [name |-> "", query |-> <<>>, limit |-> PyNone, authAt |-> <<>>]

Init ==
    /\ api_key \in {"", "app-password"}
    /\ identifier \in {"", "user.bsky.social"}
    /\ pc = "idle"
    /\ name = ""
    /\ query = <<>>
    /\ limit = PyNone
    /\ exec = 0
    /\ attempt = 0
    /\ client = "None"
    /\ last_auth = <<>>
    /\ now = 0
    /\ result = NoResult
    /\ calls = 0
    /\ ensured = [e \in Runs |-> 0]
    /\ nLogin = [e \in Runs |-> 0]
    /\ nLoginOK = [e \in Runs |-> 0]
    /\ lastLogin = [e \in Runs |-> "-"]
    /\ slept = [e \in Runs |-> <<>>]
    /\ sent = [e \in Runs |-> <<>>]
    /\ dataOut = [e \in Runs |-> "-"]
    /\ prev = NoPrev
    /\ InitLimitIdle
    /\ ExtIdle

\* the wrapper returns res to the host
Finish(res) ==
    /\ pc' = "idle"
    /\ result' = res
    /\ exec' = exec

\* func goes on to the step p
Goto(p) ==
    /\ pc' = p
    /\ UNCHANGED <<result, exec>>

\* func raises e. In its first run the wrapper's except clauses see it:
\* TokenExpiredError runs func again (args[0] is the tool name, a str without
\* ensure_client), anything else is rendered. In the second run func was
\* called from inside the except clause, where no clause of the same try
\* statement applies: the exception leaves the wrapper.
Raised(e) ==
    IF exec = 1
    THEN IF IsInstance(e, "TokenExpiredError")
         THEN /\ pc' = "enter"
              /\ exec' = 2
              /\ result' = result
         ELSE Finish(Returned(ErrorText(e)))
    ELSE Finish(Raises(e))

\* the previous invocation ran func once, logged in at the first attempt and
\* returned the payload
CleanSuccess ==
    /\ exec = 1
    /\ nLogin[1] = 1
    /\ nLoginOK[1] = 1
    /\ result = Returned(PayloadText)

\* the host calls the tool: the wrapper calls func
CallTool(r) ==
    /\ pc = "idle"
    /\ calls < MaxCalls
    /\ calls' = calls + 1
    /\ prev' = IF CleanSuccess
               THEN [name |-> name, query |-> query, limit |-> limit, authAt |-> last_auth]
               ELSE NoPrev
    /\ name' = r.name
    /\ query' = r.query
    /\ limit' = r.limit
    /\ pc' = "enter"
    /\ exec' = 1
    /\ result' = NoResult
    /\ attempt' = 0
    /\ ensured' = [e \in Runs |-> 0]
    /\ nLogin' = [e \in Runs |-> 0]
    /\ nLoginOK' = [e \in Runs |-> 0]
    /\ lastLogin' = [e \in Runs |-> "-"]
    /\ slept' = [e \in Runs |-> <<>>]
    /\ sent' = [e \in Runs |-> <<>>]
    /\ dataOut' = [e \in Runs |-> "-"]
    /\ UNCHANGED <<api_key, identifier, client, last_auth, now, limVars, extVars>>

\* func up to its first await: validate_environment, BlueSkyClient(), and
\* ensure_client up to the login call
Enter ==
    /\ pc = "enter"
    /\ attempt' = 0
    /\ IF ~validate_environment(api_key, identifier)
       THEN /\ Finish(Returned(ConfigText))
            /\ UNCHANGED <<client, last_auth, ensured>>
       ELSE /\ ensured' = [ensured EXCEPT ![exec] = @ + 1]
            /\ last_auth' = <<>>
            /\ IF NeedsLogin("None", <<>>, now)
               THEN client' = "Client" /\ Goto("login")
               ELSE client' = "None" /\ Goto("dispatch")
    /\ UNCHANGED <<api_key, identifier, name, query, limit, now, calls, nLogin,
                   nLoginOK, lastLogin, slept, sent, dataOut, prev, limVars, extVars>>

\* client.login returns or raises
LoginReturn(o) ==
    /\ pc = "login"
    /\ nLogin' = [nLogin EXCEPT ![exec] = @ + 1]
    /\ lastLogin' = [lastLogin EXCEPT ![exec] = o]
    /\ IF o = "ok"
       THEN /\ last_auth' = <<now>>
            /\ nLoginOK' = [nLoginOK EXCEPT ![exec] = @ + 1]
            /\ Goto("dispatch")
            /\ UNCHANGED slept
       ELSE /\ UNCHANGED <<last_auth, nLoginOK>>
            /\ IF LoginCaught(o) /\ ~LastAttempt(attempt)
               THEN /\ slept' = [slept EXCEPT ![exec] = Append(@, Delay(attempt))]
                    /\ Goto("sleep")
               ELSE /\ Raised("ConnectionError")
                    /\ UNCHANGED slept
    /\ UNCHANGED <<api_key, identifier, name, query, limit, attempt, client, now,
                   calls, ensured, sent, dataOut, prev, limVars, extVars>>

\* asyncio.sleep returns: the next iteration of the loop
SleepReturn ==
    /\ pc = "sleep"
    /\ attempt' = attempt + 1
    /\ Goto("login")
    /\ UNCHANGED <<api_key, identifier, name, query, limit, client, last_auth, now,
                   calls, ensured, nLogin, nLoginOK, lastLogin, slept, sent,
                   dataOut, prev, limVars, extVars>>

\* the if/elif chain of func, up to the data call
Dispatch ==
    /\ pc = "dispatch"
    /\ IF name = "bluesky_get_profile"
       THEN /\ sent' = [sent EXCEPT ![exec] = Append(@, <<>>)]
            /\ Goto("data")
       ELSE IF name \in SearchTools /\ Falsy(query)
       THEN /\ Finish(Returned(MissingQueryText))
            /\ UNCHANGED sent
       ELSE IF name \in LimitTools \cup SearchTools
       THEN LET v == validate_limit(limit, DefaultLimitOf(name), MAX_LIMIT) IN
            IF v.exc = "none"
            THEN /\ sent' = [sent EXCEPT ![exec] = Append(@, <<v.val>>)]
                 /\ Goto("data")
            ELSE /\ Raised(v.exc)
                 /\ UNCHANGED sent
       ELSE /\ Finish(Returned(UnknownToolText(name)))
            /\ UNCHANGED sent
    /\ UNCHANGED <<api_key, identifier, name, query, limit, attempt, client,
                   last_auth, now, calls, ensured, nLogin, nLoginOK, lastLogin,
                   slept, dataOut, prev, limVars, extVars>>

\* the data call returns or raises
DataReturn(o) ==
    /\ pc = "data"
    /\ dataOut' = [dataOut EXCEPT ![exec] = o]
    /\ IF o = "ok" THEN Finish(Returned(PayloadText)) ELSE Raised(o)
    /\ UNCHANGED <<api_key, identifier, name, query, limit, attempt, client,
                   last_auth, now, calls, ensured, nLogin, nLoginOK, lastLogin,
                   slept, sent, prev, limVars, extVars>>

\* an hour passes between two invocations (the clock starts at the first one)
Tick ==
    /\ pc = "idle"
    /\ calls > 0
    /\ now < MaxTime
    /\ now' = now + 1
    /\ UNCHANGED <<api_key, identifier, pc, name, query, limit, exec, attempt,
                   client, last_auth, result, calls, ensured, nLogin, nLoginOK,
                   lastLogin, slept, sent, dataOut, prev, limVars, extVars>>

Next ==
    \/ \E r \in Requests : CallTool(r)
    \/ Enter
    \/ \E o \in LoginOutcomes : LoginReturn(o)
    \/ SleepReturn
    \/ Dispatch
    \/ \E o \in DataOutcomes : DataReturn(o)
    \/ Tick

Spec == Init /\ [][Next]_vars

\* SpecTerm: the same invocations, where every login, sleep and data call that
\* was started returns or raises in the end. The clock, which no step of an
\* invocation reads after BlueSkyClient() is built anew, stands still.
Step ==
    \/ Enter
    \/ \E o \in LoginOutcomes : LoginReturn(o)
    \/ SleepReturn
    \/ Dispatch
    \/ \E o \in DataOutcomes : DataReturn(o)

NextTerm ==
    \/ \E r \in Requests : CallTool(r)
    \/ Step

SpecTerm == Init /\ [][NextTerm]_vars /\ WF_vars(Step)

----------------------------------------------------------------------------
(* SpecLimit *)

InitLimitSpec ==
    /\ api_key = "app-password"
    /\ identifier = "user.bsky.social"
    /\ pc = "idle"
    /\ name = ""
    /\ query = <<>>
    /\ limit = PyNone
    /\ exec = 0
    /\ attempt = 0
    /\ client = "None"
    /\ last_auth = <<>>
    /\ now = 0
    /\ result = NoResult
    /\ calls = 0
    /\ ensured = [e \in Runs |-> 0]
    /\ nLogin = [e \in Runs |-> 0]
    /\ nLoginOK = [e \in Runs |-> 0]
    /\ lastLogin = [e \in Runs |-> "-"]
    /\ slept = [e \in Runs |-> <<>>]
    /\ sent = [e \in Runs |-> <<>>]
    /\ dataOut = [e \in Runs |-> "-"]
    /\ prev = NoPrev
    /\ InitLimit
    /\ ExtIdle

NextLimit == CallValidateLimit

SpecLimit == InitLimitSpec /\ [][NextLimit]_vars

----------------------------------------------------------------------------
(* SpecSession: make_bluesky_request called again and again on one BlueSkySession *)

\* the wrapped handle_call_tool of bluesky_mcp not in use
McpIdle ==
    /\ api_key = "app-password"
    /\ identifier = "user.bsky.social"
    /\ pc = "idle"
    /\ name = ""
    /\ query = <<>>
    /\ limit = PyNone
    /\ exec = 0
    /\ attempt = 0
    /\ client = "None"
    /\ last_auth = <<>>
    /\ now = 0
    /\ result = NoResult
    /\ calls = 0
    /\ ensured = [e \in Runs |-> 0]
    /\ nLogin = [e \in Runs |-> 0]
    /\ nLoginOK = [e \in Runs |-> 0]
    /\ lastLogin = [e \in Runs |-> "-"]
    /\ slept = [e \in Runs |-> <<>>]
    /\ sent = [e \in Runs |-> <<>>]
    /\ dataOut = [e \in Runs |-> "-"]
    /\ prev = NoPrev

\* make_bluesky_request up to its first await, on a session whose jwt is j and
\* whose Authorization header is a: ensure_auth sends createSession when there
\* is no jwt, and otherwise returns, whereupon the data request is sent with
\* session.headers
StartRequest(j, a) ==
    /\ av_calls' = av_calls + 1
    /\ av_prev' = [ret |-> av_ret, resp |-> av_resp]
    /\ av_ret' = NoRet
    /\ av_resp' = NoResp
    /\ IF j = <<>>
       THEN /\ av_pc' = "login"
            /\ av_nLogin' = 1
            /\ av_nData' = 0
            /\ av_sentAuth' = <<>>
       ELSE /\ av_pc' = "data"
            /\ av_nLogin' = 0
            /\ av_nData' = 1
            /\ av_sentAuth' = a

\* a caller holding the session calls make_bluesky_request
MakeRequest ==
    /\ av_pc \in {"ready", "returned"}
    /\ av_calls < MaxSessCalls
    /\ StartRequest(s_jwt, s_auth)
    /\ UNCHANGED <<sessVars, av_good, hdlVars, concVars, apiVars, mcpVars, limVars, freshVars>>

\* the response to createSession arrives: the rest of ensure_auth and, when it
\* returns, the data request; when it raises, the except clause of
\* make_bluesky_request returns the error text
LoginResponse(lr) ==
    /\ av_pc = "login"
    /\ LET a == EnsureAuthAfter(lr, Session, s_tok) IN
       /\ s_jwt' = a.jwt
       /\ s_refresh' = a.refresh
       /\ s_did' = a.did
       /\ s_auth' = a.auth
       /\ s_tok' = TokensAfter(lr, s_tok)
       /\ IF a.exc = "-"
          THEN /\ av_good' = a.jwt
               /\ av_pc' = "data"
               /\ av_nData' = av_nData + 1
               /\ av_sentAuth' = a.auth
               /\ av_ret' = av_ret
          ELSE /\ av_pc' = "returned"
               /\ av_ret' = StrRet(AvErrorText(a.exc))
               /\ UNCHANGED <<av_good, av_nData, av_sentAuth>>
    /\ UNCHANGED <<av_nLogin, av_resp, av_prev, av_calls, hdlVars, concVars,
                   apiVars, mcpVars, limVars, freshVars>>

\* the response to the data request arrives
DataResponse(r) ==
    /\ av_pc = "data"
    /\ av_resp' = r
    /\ s_jwt' = JwtAfterData(r, s_jwt)
    /\ av_ret' = ClassifyData(r)
    /\ av_pc' = "returned"
    /\ UNCHANGED <<s_did, s_refresh, s_auth, s_tok, av_good, av_nLogin, av_nData,
                   av_sentAuth, av_prev, av_calls, hdlVars, concVars, apiVars,
                   mcpVars, limVars, freshVars>>

InitSession == McpIdle /\ InitLimitIdle /\ ExtIdle

NextSession ==
    \/ MakeRequest
    \/ \E lr \in LoginResponses : LoginResponse(lr)
    \/ \E r \in DataResponses : DataResponse(r)

SpecSession == InitSession /\ [][NextSession]_vars

----------------------------------------------------------------------------
(* SpecAV: handle_call_tool of alpha_vantage_mcp *)

\* limit arguments tried: absent, null, zero, negative, in range, above the
\* maximum, a string that is no number
AvLimitArgs ==
    {<<>>}
    \cup {<<v>> : v \in {PyNone, PyIntVal(0), PyIntVal(0 - LimitBelow), PyIntVal(7),
                         PyIntVal(MAX_LIMIT + LimitAbove), [tag |-> "text", val |-> 0]}}

AvRequests ==
    {[name |-> n, query |-> <<>>, limit |-> <<>>] :
        n \in {"bluesky_get_profile"} \cup UnknownNames}
    \cup {[name |-> n, query |-> <<>>, limit |-> l] : n \in LimitTools, l \in AvLimitArgs}
    \cup {[name |-> n, query |-> q, limit |-> l] :
            n \in SearchTools, q \in Queries, l \in AvLimitArgs}

\* arguments.get("limit", 50) and arguments.get("limit", 25)
AvLimitParam(n, l) == IF l = <<>> THEN PyIntVal(DefaultLimitOf(n)) ELSE l[1]

TextBlock(t) == [type |-> "text", text |-> t]
AvReturned(b) == [type |-> "return", blocks |-> b]

\* a slip: a failure text is dropped and an empty list returned
RenderResponseDroppingErrors(ret) ==
    IF ret.type = "str" THEN <<>> ELSE <<TextBlock("<json.dumps(response)>")>>

\* the blocks handle_call_tool makes of what make_bluesky_request returned
RenderResponse(ret) ==
    IF ret.type = "str"
    THEN <<TextBlock(ret.val)>>
    ELSE <<TextBlock("<json.dumps(response)>")>>

\* the host calls the tool: a new BlueSkySession, the if/elif chain, and for a
\* known tool with its required argument make_bluesky_request up to its
\* first await
AvCallTool(r) ==
    /\ av_pc = "ready"
    /\ av_calls < MaxSessCalls
    /\ av_req' = r
    /\ s_jwt' = <<>>
    /\ s_did' = <<>>
    /\ s_refresh' = <<>>
    /\ s_auth' = <<>>
    /\ av_good' = <<>>
    /\ IF (r.name \in SearchTools /\ Falsy(r.query)) \/ r.name \notin ToolNames
       THEN /\ av_result' = AvReturned(<<TextBlock(
                                IF r.name \in ToolNames THEN MissingQueryText
                                ELSE UnknownToolText(r.name))>>)
            /\ av_param' = <<>>
            /\ av_pc' = "ready"
            /\ av_ret' = NoRet
            /\ av_resp' = NoResp
            /\ av_nLogin' = 0
            /\ av_nData' = 0
            /\ av_sentAuth' = <<>>
            /\ UNCHANGED <<av_prev, av_calls>>
       ELSE /\ av_result' = NoAvResult
            /\ av_param' = IF r.name = "bluesky_get_profile" THEN <<>>
                           ELSE <<AvLimitParam(r.name, r.limit)>>
            /\ StartRequest(<<>>, <<>>)
    /\ UNCHANGED <<s_tok, concVars, apiVars, mcpVars, limVars, freshVars>>

\* make_bluesky_request has returned: handle_call_tool renders and returns
AvRender ==
    /\ av_pc = "returned"
    /\ av_pc' = "ready"
    /\ av_result' = AvReturned(RenderResponse(av_ret))
    /\ UNCHANGED <<sessVars, av_ret, av_good, av_nLogin, av_nData, av_sentAuth,
                   av_resp, av_prev, av_calls, av_req, av_param, concVars, apiVars,
                   mcpVars, limVars, freshVars>>

NextAV ==
    \/ \E r \in AvRequests : AvCallTool(r)
    \/ \E lr \in LoginResponses : LoginResponse(lr)
    \/ \E r \in DataResponses : DataResponse(r)
    \/ AvRender

SpecAV == InitSession /\ [][NextAV]_vars

----------------------------------------------------------------------------
(* SpecConc: coroutines that share one BlueSkySession and one BlueSkyClient,
   interleaved at the awaits of ensure_auth and ensure_client *)

Resting(i) == c_pc[i].at \in {"idle", "done"}

\* ensure_auth up to its await: the test of self.jwt and the createSession
\* request
ConcEnsureAuth(i) ==
    /\ Resting(i)
    /\ c_calls < MaxConcCalls
    /\ c_calls' = c_calls + 1
    /\ c_pc' = [c_pc EXCEPT ![i] = IF s_jwt = <<>> THEN At("login", 0) ELSE At("done", 0)]
    /\ UNCHANGED <<sessVars, avVars, hdlVars, apiVars, mcpVars, limVars, freshVars>>

\* the response to the createSession of caller i: the rest of ensure_auth
ConcLoginResponse(i, lr) ==
    /\ c_pc[i].at = "login"
    /\ LET a == EnsureAuthAfter(lr, Session, s_tok) IN
       /\ s_jwt' = a.jwt
       /\ s_refresh' = a.refresh
       /\ s_did' = a.did
       /\ s_auth' = a.auth
       /\ s_tok' = TokensAfter(lr, s_tok)
    /\ c_pc' = [c_pc EXCEPT ![i] = At("done", 0)]
    /\ UNCHANGED <<c_calls, avVars, hdlVars, apiVars, mcpVars, limVars, freshVars>>

\* ensure_client up to its first await: the test, the new Client and the login
\* handed to a thread
ConcEnsureClient(i) ==
    /\ Resting(i)
    /\ c_calls < MaxConcCalls
    /\ c_calls' = c_calls + 1
    /\ IF NeedsLogin(client, last_auth, now)
       THEN /\ client' = "Client"
            /\ c_pc' = [c_pc EXCEPT ![i] = At("client_login", 0)]
       ELSE /\ client' = client
            /\ c_pc' = [c_pc EXCEPT ![i] = At("done", 0)]
    /\ UNCHANGED <<api_key, identifier, pc, name, query, limit, exec, attempt,
                   last_auth, now, result, calls, ensured, nLogin, nLoginOK,
                   lastLogin, slept, sent, dataOut, prev, limVars, freshVars>>
    /\ UNCHANGED <<sessVars, avVars, hdlVars, apiVars>>

\* client.login of caller i returns or raises
ConcClientLoginReturn(i, o) ==
    /\ c_pc[i].at = "client_login"
    /\ IF o = "ok"
       THEN /\ last_auth' = <<now>>
            /\ c_pc' = [c_pc EXCEPT ![i] = At("done", 0)]
       ELSE /\ last_auth' = last_auth
            /\ c_pc' = [c_pc EXCEPT ![i] =
                           IF LoginCaught(o) /\ ~LastAttempt(c_pc[i].attempt)
                           THEN At("client_sleep", c_pc[i].attempt)
                           ELSE At("done", 0)]
    /\ UNCHANGED <<api_key, identifier, pc, name, query, limit, exec, attempt,
                   client, now, result, calls, ensured, nLogin, nLoginOK,
                   lastLogin, slept, sent, dataOut, prev, limVars, freshVars>>
    /\ UNCHANGED <<c_calls, sessVars, avVars, hdlVars, apiVars>>

\* asyncio.sleep of caller i returns: the next iteration of its loop
ConcSleepReturn(i) ==
    /\ c_pc[i].at = "client_sleep"
    /\ c_pc' = [c_pc EXCEPT ![i] = At("client_login", c_pc[i].attempt + 1)]
    /\ UNCHANGED <<c_calls, sessVars, avVars, hdlVars, apiVars, mcpVars, limVars, freshVars>>

InitConc == McpIdle /\ InitLimitIdle /\ ExtIdle

NextConc ==
    \/ \E i \in Callers : ConcEnsureAuth(i)
    \/ \E i \in Callers : \E lr \in LoginResponses : ConcLoginResponse(i, lr)
    \/ \E i \in Callers : ConcEnsureClient(i)
    \/ \E i \in Callers : \E o \in LoginOutcomes : ConcClientLoginReturn(i, o)
    \/ \E i \in Callers : ConcSleepReturn(i)

SpecConc == InitConc /\ [][NextConc]_vars

----------------------------------------------------------------------------
(* SpecAPI: get_profile and get_follows called again and again on the one
   BlueSkyAPI of bluesky_functions.py *)

\* BLUESKY_IDENTIFIER and BLUESKY_APP_PASSWORD: unset or empty, or set
ApiEnvs == [identifier : {"", "user.bsky.social"}, password : {"", "app-password"}]

ApiMethods == {"get_profile", "get_follows"}

\* what the createSession request of _ensure_session does: a body with
\* accessJwt, a body without it, a body that is no JSON, a status
\* raise_for_status raises for, an exception of requests
ApiLoginOutcomes == {"ok", "KeyError", "JSONDecodeError", "HTTPError", "ConnectionError"}

\* what the data request does
ApiDataOutcomes == {"ok", "JSONDecodeError", "HTTPError", "ConnectionError"}

\* `not identifier or not password`
CredentialsMissing(env) == env.identifier = "" \/ env.password = ""

\* the outcomes of a call whose _ensure_session raised
EnsureFailures == {"ValueError", "login:KeyError", "login:JSONDecodeError",
                   "login:HTTPError", "login:ConnectionError"}

\* get_profile or get_follows up to its first request: _ensure_session, which
\* assigns self.session before it reads the credentials, and then either the
\* createSession request or, with a session already there, the data request
ApiCall(m) ==
    /\ api_pc = "ready"
    /\ api_calls < MaxApiCalls
    /\ api_calls' = api_calls + 1
    /\ api_method' = m
    /\ api_prevFail' = (api_out \in EnsureFailures)
    /\ api_tried' = (api_session = "None")
    /\ api_session' = "Session"
    /\ IF api_session = "None"
       THEN IF CredentialsMissing(api_env)
            THEN /\ api_out' = "ValueError"
                 /\ api_pc' = "ready"
                 /\ UNCHANGED api_sentAuth
            ELSE /\ api_out' = "none"
                 /\ api_pc' = "login"
                 /\ UNCHANGED api_sentAuth
       ELSE /\ api_out' = "none"
            /\ api_pc' = "data"
            /\ api_sentAuth' = api_authed
    /\ UNCHANGED <<api_env, api_authed, api_nLoginOK, sessVars, avVars, hdlVars,
                   concVars, mcpVars, limVars, freshVars>>

\* the createSession request returns or raises: the rest of _ensure_session
\* and, when it returns, the data request
ApiLoginResponse(o) ==
    /\ api_pc = "login"
    /\ IF o = "ok"
       THEN /\ api_authed' = TRUE
            /\ api_nLoginOK' = api_nLoginOK + 1
            /\ api_pc' = "data"
            /\ api_sentAuth' = TRUE
            /\ UNCHANGED api_out
       ELSE /\ api_out' = "login:" \o o
            /\ api_pc' = "ready"
            /\ UNCHANGED <<api_authed, api_nLoginOK, api_sentAuth>>
    /\ UNCHANGED <<api_env, api_session, api_tried, api_prevFail, api_calls, api_method,
                   sessVars, avVars, hdlVars, concVars, mcpVars, limVars, freshVars>>

\* the data request returns or raises: raise_for_status and response.json()
ApiDataResponse(o) ==
    /\ api_pc = "data"
    /\ api_out' = IF o = "ok" THEN "return" ELSE "data:" \o o
    /\ api_pc' = "ready"
    /\ UNCHANGED <<api_env, api_session, api_authed, api_nLoginOK, api_tried,
                   api_sentAuth, api_prevFail, api_calls, api_method, sessVars, avVars,
                   hdlVars, concVars, mcpVars, limVars, freshVars>>

InitAPI ==
    /\ McpIdle
    /\ InitLimitIdle
    /\ SessIdle /\ AvIdle /\ HdlIdle /\ ConcIdle /\ FreshIdle
    /\ api_env \in ApiEnvs
    /\ ApiNew

NextAPI ==
    \/ \E m \in ApiMethods : ApiCall(m)
    \/ \E o \in ApiLoginOutcomes : ApiLoginResponse(o)
    \/ \E o \in ApiDataOutcomes : ApiDataResponse(o)

SpecAPI == InitAPI /\ [][NextAPI]_vars

----------------------------------------------------------------------------
(* SpecFresh: ensure_client called again and again on one BlueSkyClient while
   the clock advances *)

\* the fields of the wrapped handle_call_tool that ensure_client leaves alone
FreshFrame ==
    UNCHANGED <<api_key, identifier, pc, name, query, limit, exec, attempt, result,
                calls, ensured, nLogin, nLoginOK, lastLogin, slept, sent, dataOut,
                prev, limVars, sessVars, avVars, hdlVars, concVars, apiVars>>

\* ensure_client up to its first await, or to its return when the test fails
FreshEnsureClient ==
    /\ f_pc = "ready"
    /\ f_calls < MaxFreshCalls
    /\ f_calls' = f_calls + 1
    /\ f_need' = (f_okAt = <<>> \/ now - f_okAt[1] > AUTH_EXPIRY)
    /\ f_attempt' = 0
    /\ f_nLogin' = 0
    /\ IF NeedsLogin(client, last_auth, now)
       THEN client' = "Client" /\ f_pc' = "login"
       ELSE client' = client /\ f_pc' = "ready"
    /\ UNCHANGED <<last_auth, now, f_okAt>>
    /\ FreshFrame

\* client.login returns or raises
FreshLoginReturn(o) ==
    /\ f_pc = "login"
    /\ f_nLogin' = f_nLogin + 1
    /\ IF o = "ok"
       THEN /\ last_auth' = <<now>>
            /\ f_okAt' = <<now>>
            /\ f_pc' = "ready"
       ELSE /\ UNCHANGED <<last_auth, f_okAt>>
            /\ f_pc' = IF LoginCaught(o) /\ ~LastAttempt(f_attempt)
                       THEN "sleep" ELSE "ready"
    /\ UNCHANGED <<client, now, f_attempt, f_calls, f_need>>
    /\ FreshFrame

\* asyncio.sleep returns: the next iteration of the loop
FreshSleepReturn ==
    /\ f_pc = "sleep"
    /\ f_attempt' = f_attempt + 1
    /\ f_pc' = "login"
    /\ UNCHANGED <<client, last_auth, now, f_calls, f_nLogin, f_need, f_okAt>>
    /\ FreshFrame

\* an hour passes, between calls or during an await
FreshTick ==
    /\ now < MaxTime
    /\ f_calls > 0
    /\ now' = now + 1
    /\ UNCHANGED <<client, last_auth, freshVars>>
    /\ FreshFrame

InitFresh == McpIdle /\ InitLimitIdle /\ ExtIdle

NextFresh ==
    \/ FreshEnsureClient
    \/ \E o \in LoginOutcomes : FreshLoginReturn(o)
    \/ FreshSleepReturn
    \/ FreshTick

SpecFresh == InitFresh /\ [][NextFresh]_vars

----------------------------------------------------------------------------
(* Claims about the wrapped handle_call_tool (Spec) *)

\* the wrapper has handed a result to the host
Done == pc = "idle" /\ result # NoResult

Configured == validate_environment(api_key, identifier)

LoginsMade == nLogin[1] + nLogin[2]
DataCallsSent == Len(sent[1]) + Len(sent[2])

RejectedThenAccepted ==
    /\ Done
    /\ dataOut[1] = "TokenExpiredError"
    /\ dataOut[2] = "ok"

\* C1: when the data call of the first run raises TokenExpiredError and the
\* data call after re-authentication succeeds, the invocation returns the
\* payload, and after the rejection there was exactly one re-authentication
\* (one ensure_client call, one successful login) and exactly one data call.
C1_TokenRejectionRecovery ==
    RejectedThenAccepted =>
        /\ result = Returned(PayloadText)
        /\ ensured[2] = 1
        /\ nLoginOK[2] = 1
        /\ Len(sent[2]) = 1
        /\ Len(sent[1]) = 1

C1_Witness == RejectedThenAccepted /\ exec = 2 /\ name \in ToolNames

\* C2: when the token is rejected on the original and on the retried data
\* call, the invocation returns an authentication failure outcome to the
\* caller and no third data call is made.
C2_DoubleRejectionReturnsFailure ==
    (Done /\ dataOut[1] = "TokenExpiredError" /\ dataOut[2] = "TokenExpiredError") =>
        /\ result = Returned(AuthFailedText)
        /\ DataCallsSent <= 2

\* C3: with configuration present, the wrapped handle_call_tool never raises
\* to the host, whatever the login and data calls do.
C3_NoFailureEscapes == Configured => result.type # "raise"

\* C4: the second of two consecutive identical invocations, made while the
\* token of the first is still fresh, performs no login: one login in total.
C4_LoginReuse ==
    (/\ Done
     /\ exec = 1
     /\ dataOut[1] = "ok"
     /\ prev.authAt # <<>>
     /\ prev.name = name /\ prev.query = query /\ prev.limit = limit
     /\ ~ShouldRefreshAuth(prev.authAt, now))
    => 1 + LoginsMade = 1

\* C5: a login rejected by the server (AuthenticationError) is attempted
\* once, is followed by no backoff sleep, and propagates at once.
C5_RejectionNotRetried ==
    \A e \in Runs :
        lastLogin[e] = "AuthenticationError" =>
            /\ nLogin[e] = 1
            /\ slept[e] = <<>>
            /\ ~(exec = e /\ pc \in {"sleep", "login"})

\* C6: a login that fails transiently before the third attempt is followed by
\* a backoff and another attempt; the failure is surfaced only after
\* MAX_RETRIES failed attempts.
C6_TransientRetried ==
    \A e \in Runs :
        lastLogin[e] \in TransientLogin =>
            \/ nLogin[e] = MAX_RETRIES
            \/ exec = e /\ pc \in {"sleep", "login"}

\* C7: an invocation whose login is rejected yields the AuthenticationError
\* outcome, one whose login fails transiently yields another outcome.
C7_AuthKindsDistinct ==
    (Done /\ Configured /\ exec = 1 /\ nLoginOK[1] = 0) =>
        /\ lastLogin[1] = "AuthenticationError" => result = Returned(AuthFailedText)
        /\ lastLogin[1] \in TransientLogin =>
              result.type = "return" /\ result.val # AuthFailedText

\* C9: an unknown tool name, with configuration present, makes no network
\* call (no login, no data call) and returns 'Unknown tool: <name>'.
C9_UnknownToolNoNetwork ==
    (calls > 0 /\ Configured /\ name \notin ToolNames) =>
        /\ LoginsMade = 0
        /\ DataCallsSent = 0
        /\ Done => result = Returned(UnknownToolText(name))

\* C10: a search tool called with the query absent or empty, with
\* configuration present, makes no network call (no login, no data call) and
\* returns 'Missing required argument: query'.
C10_MissingQueryNoNetwork ==
    (calls > 0 /\ Configured /\ name \in SearchTools /\ Falsy(query)) =>
        /\ LoginsMade = 0
        /\ DataCallsSent = 0
        /\ Done => result = Returned(MissingQueryText)

\* C11: with the identifier or the app password absent or empty, every
\* invocation, the first and each later one, returns the ConfigurationError
\* text as its result and makes no network call (no login, no data call).
C11_MissingConfigNoNetwork ==
    (calls > 0 /\ ~(api_key # "" /\ identifier # "")) =>
        /\ LoginsMade = 0
        /\ DataCallsSent = 0
        /\ ensured = [e \in Runs |-> 0]
        /\ pc \in {"enter", "idle"}
        /\ pc = "idle" => result = Returned(ConfigText)

C11_Witness ==
    /\ Done
    /\ calls = MaxCalls
    /\ api_key # ""
    /\ identifier = ""
    /\ result = Returned(ConfigText)

\* C12: a rate-limited data call (RateLimitError) makes the invocation return
\* 'Rate limit exceeded. Please try again later.', and that data call is
\* issued exactly once: no data call follows it.
C12_RateLimitSurfaced ==
    \A e \in Runs :
        dataOut[e] = "RateLimitError" =>
            /\ Done
            /\ result = Returned(RateLimitText)
            /\ Len(sent[e]) = 1
            /\ e = 1 => Len(sent[2]) = 0

\* C21: in each run of ensure_client at most MAX_RETRIES logins are attempted,
\* the k-th sleep lasts k * RETRY_DELAY, there are at most MAX_RETRIES - 1
\* sleeps and fewer sleeps than attempts once the run is over, and the
\* successful login is the last one attempted.
C21_RetrySchedule ==
    \A e \in Runs :
        /\ nLogin[e] <= MAX_RETRIES
        /\ Len(slept[e]) <= MAX_RETRIES - 1
        /\ Len(slept[e]) <= nLogin[e]
        /\ \A k \in 1 .. Len(slept[e]) : slept[e][k] = k * RETRY_DELAY
        /\ \A k \in 2 .. Len(slept[e]) : slept[e][k] > slept[e][k - 1]
        /\ nLogin[e] = MAX_RETRIES => Len(slept[e]) = MAX_RETRIES - 1
        /\ nLoginOK[e] <= 1
        /\ nLoginOK[e] = 1 =>
              /\ lastLogin[e] = "ok"
              /\ ~(exec = e /\ pc \in {"login", "sleep"})

C21_Witness ==
    /\ nLogin[1] = MAX_RETRIES
    /\ slept[1] = <<RETRY_DELAY, 2 * RETRY_DELAY>>
    /\ lastLogin[1] = "AuthenticationError"
    /\ Done
    /\ exec = 1

\* C24: an invocation that has started comes to its end, and in it func runs
\* at most twice, at most 2 data calls are sent and at most 2 * MAX_RETRIES
\* logins are attempted.
C24_BoundedWork ==
    /\ [](/\ exec <= 2
          /\ \A e \in Runs : ensured[e] <= 1 /\ Len(sent[e]) <= 1
          /\ DataCallsSent <= 2
          /\ LoginsMade <= 2 * MAX_RETRIES)
    /\ (pc # "idle") ~> (pc = "idle")

\* both runs of func used all three logins and sent their data call
C24_Witness ==
    /\ Done
    /\ exec = 2
    /\ LoginsMade = 2 * MAX_RETRIES
    /\ DataCallsSent = 2

----------------------------------------------------------------------------
(* Claims about BlueSkySession and make_bluesky_request (SpecSession) *)

\* C13: every data request that is sent carries an Authorization header, and
\* the header holds the token of the latest successful login.
C13_BearerOnEveryDataCall ==
    av_pc = "data" => (av_sentAuth # <<>> /\ av_sentAuth = av_good)

\* C14: in every state of the session the access token (jwt) and the account
\* id (did) are both present or both absent.
C14_SessionConsistent == (s_jwt = <<>>) <=> (s_did = <<>>)

\* C15: a call whose data request gets 401 clears the jwt and returns the
\* token-rejected text having sent that one data request and no request
\* after it; the next call on the session sends a login request, before any
\* data request.
C15_ClearOnReject ==
    /\ (av_pc = "returned" /\ av_resp.st = 401) =>
          /\ s_jwt = <<>>
          /\ av_ret = StrRet(AvRejectedText)
          /\ av_nData = 1
          /\ av_nLogin <= 1
    /\ av_prev.resp.st = 401 =>
          /\ av_nLogin = 1
          /\ av_pc = "login" => av_nData = 0

C15_Witness == av_prev.resp.st = 401 /\ av_pc = "data" /\ av_nLogin = 1

\* the outcome kinds of the data response
KindOf(r) ==
    IF r.st = 429 THEN "RateLimited"
    ELSE IF r.st = 401 THEN "TokenRejected"
    ELSE IF r.exc = "none" /\ r.st # 200 THEN "RemoteError"
    ELSE IF r.exc = "ReadTimeout" THEN "Timeout"
    ELSE IF r.exc = "ConnectError" THEN "Unreachable"
    ELSE IF r.exc # "none" \/ r.body # "json" THEN "Internal"
    ELSE "Success"

\* C16: make_bluesky_request never raises, returns the payload for a 2xx
\* parseable body and a failure otherwise, and two data responses of
\* different kinds never yield the same returned value.
C16_KindsDistinguishable ==
    (av_pc = "returned" /\ av_resp # NoResp) =>
        /\ av_ret # NoRet
        /\ (KindOf(av_resp) = "Success") <=> (av_ret.type = "dict")
        /\ KindOf(av_resp) = "RateLimited" => av_ret = StrRet(AvRateLimitText)
        /\ KindOf(av_resp) = "TokenRejected" => av_ret = StrRet(AvRejectedText)
        /\ (av_prev.resp # NoResp /\ KindOf(av_prev.resp) # KindOf(av_resp)) =>
              av_prev.ret # av_ret

\* C23: the response to the data request of an authenticated session leaves
\* refresh_jwt, did and the Authorization header as they were, whatever the
\* response; jwt becomes absent on 401 and is left as it was otherwise.
C23_DataCallFrame ==
    [][(av_pc = "data" /\ s_jwt # <<>>)
       => /\ av_pc' = "returned"
          /\ s_refresh' = s_refresh
          /\ s_did' = s_did
          /\ s_auth' = s_auth
          /\ s_jwt' = IF av_resp'.st = 401 THEN <<>> ELSE s_jwt]_vars

C23_Witness ==
    /\ av_pc = "returned"
    /\ av_resp.st = 429
    /\ av_nLogin = 0
    /\ s_jwt # <<>>
    /\ s_auth # <<>>
    /\ s_did # <<>>

----------------------------------------------------------------------------
(* Claims about handle_call_tool of alpha_vantage_mcp (SpecAV) *)

AvDone == av_pc = "ready" /\ av_req # NoReq

\* C19: whatever the tool name, the arguments and the remote API's behaviour,
\* the invocation returns a list of exactly one text block and does not raise.
C19_OneTextBlock ==
    AvDone =>
        /\ av_result.type = "return"
        /\ Len(av_result.blocks) = 1
        /\ av_result.blocks[1].type = "text"

C19_Witness ==
    /\ AvDone
    /\ av_resp.exc = "ReadTimeout"
    /\ av_result = AvReturned(<<TextBlock(AvErrorText(""))>>)

\* C20: the limit parameter of a data request is an integer in
\* 1 .. MAX_LIMIT: the tool's default when the argument is absent or no
\* positive integer, and the argument clamped to 1 .. MAX_LIMIT otherwise.
C20_LimitNormalized ==
    (av_pc = "data" /\ av_param # <<>>) =>
        /\ av_param[1].tag = "int"
        /\ av_param[1].val \in 1 .. MAX_LIMIT
        /\ av_req.limit = <<>> => av_param[1].val = DefaultLimitOf(av_req.name)

\* C25: an invocation with an unknown tool name, or of a search tool with the
\* query absent or empty, returns its failure text without calling
\* make_bluesky_request: no login and no data request is sent.
C25_ValidationBeforeNetwork ==
    [][(/\ av_pc = "ready"
        /\ \/ av_req'.name \notin ToolNames
           \/ av_req'.name \in SearchTools /\ av_req'.query \in {<<>>, <<"">>})
       => /\ av_pc' = "ready"
          /\ av_result' = AvReturned(<<TextBlock(
                              IF av_req'.name \in ToolNames
                              THEN "Missing required argument: query"
                              ELSE "Unknown tool: " \o av_req'.name)>>)
          /\ av_calls' = av_calls
          /\ av_nLogin' = 0
          /\ av_nData' = 0]_vars

C25_Witness ==
    /\ AvDone
    /\ av_req.name \in SearchTools
    /\ av_req.query = <<"">>
    /\ av_result = AvReturned(<<TextBlock("Missing required argument: query")>>)
    /\ av_nLogin = 0
    /\ av_nData = 0

----------------------------------------------------------------------------
(* Claims about concurrent callers (SpecConc) *)

InFlight(p) == {i \in Callers : c_pc[i].at = p}

\* C17: among the callers that share one session object, at most one login
\* request is in flight at any time, for ensure_auth and for ensure_client.
C17_OneLoginInFlight ==
    /\ Cardinality(InFlight("login")) <= 1
    /\ Cardinality(InFlight("client_login")) <= 1

----------------------------------------------------------------------------
(* Claims about BlueSkyAPI (SpecAPI) *)

\* C18: on one BlueSkyAPI no data request is sent unless a login has
\* succeeded on it, every data request carries the Authorization header, and
\* the call after one whose _ensure_session failed attempts authentication
\* again.
C18_NeverUnauthenticated ==
    /\ api_pc = "data" => (api_nLoginOK > 0 /\ api_sentAuth)
    /\ api_prevFail => api_tried

----------------------------------------------------------------------------
(* Claims about the freshness window of BlueSkyClient (SpecFresh) *)

\* C22: a call of ensure_client performs a login exactly when, at its start,
\* no login had succeeded on the instance or the last success was more than
\* one hour old, and otherwise returns without a network call; last_auth is
\* the time of the last successful login and nothing else.
C22_FreshnessWindow ==
    /\ last_auth = f_okAt
    /\ f_calls > 0 =>
          /\ f_need <=> (f_nLogin > 0 \/ f_pc = "login")
          /\ ~f_need => f_pc = "ready"

\* a call made exactly one hour after the last successful login returned
\* without a login
C22_Witness ==
    /\ f_calls >= 2
    /\ f_pc = "ready"
    /\ ~f_need
    /\ f_nLogin = 0
    /\ f_okAt # <<>>
    /\ now - f_okAt[1] = AUTH_EXPIRY

----------------------------------------------------------------------------
(* Claims about validate_limit (SpecLimit) *)

\* C8: validate_limit never raises and its result is in 1 .. MAX_LIMIT: the
\* default for an absent, non-numeric, zero or negative limit, MAX_LIMIT for
\* an integer above it, and an integer in 1 .. MAX_LIMIT unchanged.
C8_ValidateLimit ==
    lim_pc = "out" =>
        /\ lim_out.exc = "none"
        /\ lim_out.val \in 1 .. MAX_LIMIT
        /\ lim_in.tag \in {"none", "text", "list", "nan"} => lim_out.val = lim_default
        /\ (lim_in.tag = "int" /\ lim_in.val < 1) => lim_out.val = lim_default
        /\ (lim_in.tag = "int" /\ lim_in.val > MAX_LIMIT) => lim_out.val = MAX_LIMIT
        /\ (lim_in.tag = "int" /\ lim_in.val \in 1 .. MAX_LIMIT) => lim_out.val = lim_in.val

====
